---------------------------- MODULE Spec2Model ----------------------------
(***************************************************************************)
(* The Research Orchestration Engine of the research agent:               *)
(* performDeepResearch (research-agent/index.ts) and its four phase       *)
(* executors (research-agent/phases/*.ts), the ResearchState mutators     *)
(* (research-agent/state.ts) and the leaf wrappers (research-agent/       *)
(* tools.ts).  Every await of a leaf call is a step of its own; a         *)
(* Promise.all batch is a sequence of member statuses that settle one at  *)
(* a time, in any order.                                                  *)
(***************************************************************************)
EXTENDS Integers, Sequences, FiniteSets, TLC

(***************************************************************************)
(* Bounds of the model.                                                   *)
(***************************************************************************)
\* the longest query list the completion service returns
MaxQueries == 2
\* the most results the search gateway returns for one query
MaxResults == 1
\* the most investigation strategies in a research plan
MaxStrategies == 2
\* the most results the search gateway returns for one initial query
MaxInitialResults == 2
\* the largest startIndex GoogleSearchClient.search is called with
MaxStartIndex == 95
\* the most messages, and the most content blocks of a message or of the
\* system prompt, transformMessagesForAnthropic is called with
MaxMessages == 4
MaxBlocks == 2

\* the URLs the search gateway returns for the initial searches
InitialUrls == {1, 2}

(***************************************************************************)
(* Program constants.                                                     *)
(***************************************************************************)
\* maxResults of an initial search (initialSearch.ts)
InitialMaxResults == 8
\* maxResults of a specialized search (fanout.ts)
FanOutMaxResults == 6
\* allSearchResults.slice(0, 9)
FetchCeiling == 9
\* item.content.length > 100, content.trim().length >= 100
MinContentLength == 100

PartialNotice == "Research was partially completed due to an error."

(***************************************************************************)
(* Helpers on sequences.                                                  *)
(***************************************************************************)
Min(a, b) == IF a <= b THEN a ELSE b

Range(s) == {s[i] : i \in 1..Len(s)}

\* Array.prototype.slice(0, n)
Slice(s, n) == SubSeq(s, 1, Min(n, Len(s)))

\* Array.prototype.flat / flatMap over a sequence of sequences
RECURSIVE Flat(_)
Flat(ss) == IF ss = <<>> THEN <<>> ELSE Head(ss) \o Flat(Tail(ss))

\* (a variant of Dedupe that keeps the last occurrence of a value)
RECURSIVE DedupeKeepingLast(_)
DedupeKeepingLast(s) ==
  IF s = <<>> THEN <<>>
  ELSE LET d == DedupeKeepingLast(Tail(s))
       IN  IF Head(s) \in {d[i] : i \in 1..Len(d)} THEN d ELSE <<Head(s)>> \o d

\* [...new Set(urls)]: a JavaScript Set keeps insertion order
RECURSIVE Dedupe(_)
Dedupe(s) ==
  IF s = <<>> THEN <<>>
  ELSE LET d == Dedupe(SubSeq(s, 1, Len(s) - 1))
           x == s[Len(s)]
       IN  IF x \in Range(d) THEN d ELSE Append(d, x)

NoDuplicates(s) == \A i, j \in 1..Len(s) : s[i] = s[j] => i = j

IsPrefix(s, t) == Len(s) <= Len(t) /\ SubSeq(t, 1, Len(s)) = s

(***************************************************************************)
(* Values.                                                                *)
(*   A query is a positive number; NotAString stands for an element of a  *)
(*   parsed query list that is not a string.  A URL is a number.  A page  *)
(*   body is [len, trim, of]: content.length, content.trim().length and   *)
(*   the URL it was fetched from.  The text of a snippet or of an         *)
(*   extraction is [kind, of]: of is the URL of the search result or of   *)
(*   the body the text was made from.                                     *)
(***************************************************************************)
NotAString == 0

Pending == [status |-> "pending"]

Snippet(url)     == [kind |-> "snippet", of |-> url]
Extraction(body) == [kind |-> "extract", of |-> body.of]

\* the URL the gateway ranks r-th for query q of strategy s
PageUrl(s, q, r) == 100 * s + 10 * q + r

(***************************************************************************)
(* What the leaves answer.                                                *)
(***************************************************************************)
\* generateText for a query list: the call throws, or returns text that is
\* not JSON, JSON without "queries", JSON whose queries are not strings, or
\* a list of n queries
QueryListReplies ==
  {[kind |-> k, n |-> 0] : k \in {"throws", "notJson", "noQueries"}}
    \cup {[kind |-> "notStrings", n |-> 1]}
    \cup {[kind |-> "queries", n |-> n] : n \in 0..MaxQueries}

\* searchGoogle: throws, or returns the ranked URLs, each page once
InitialGatewayReplies ==
  {[throws |-> TRUE, urls |-> <<>>]}
    \cup {[throws |-> FALSE, urls |-> u] :
            u \in {v \in UNION {[1..k -> InitialUrls] :
                                   k \in 0..Min(MaxInitialResults, InitialMaxResults)} :
                      NoDuplicates(v)}}

FanOutGatewayReplies(s, q) ==
  {[throws |-> TRUE, urls |-> <<>>]}
    \cup {[throws |-> FALSE, urls |-> [r \in 1..k |-> PageUrl(s, q, r)]] :
            k \in 0..Min(MaxResults, FanOutMaxResults)}

\* generateText of identifyResearchGaps
GapReplies == {"throws", "text"}

\* generateText of generateResearchPlan: the call throws, returns text that
\* is not JSON, or JSON: a plan of n strategies, or one that lacks
\* researchQuestions or synthesisStrategy
NoPlan == [defined |-> FALSE]

Plan(questions, strategies, synthesisStrategy) ==
  [defined |-> TRUE, researchQuestions |-> questions,
   investigationStrategies |-> strategies, synthesisStrategy |-> synthesisStrategy]

PlanReplies ==
  {[kind |-> k, plan |-> NoPlan] : k \in {"throws", "notJson"}}
    \cup {[kind |-> "json", plan |-> Plan(TRUE, n, TRUE)] : n \in 0..MaxStrategies}
    \cup {[kind |-> "json", plan |-> Plan(FALSE, 0, TRUE)],
          [kind |-> "json", plan |-> Plan(TRUE, 0, FALSE)]}

\* generateText of generateResearchSynthesis
\* (a field the JSON lacks reads as Undefined)
Undefined == "undefined"

Synthesis(summary, keyInsights) ==
  [summary |-> summary, content |-> "content", keyInsights |-> keyInsights,
   conclusions |-> "conclusions"]

SynthesisReplies ==
  {[kind |-> k, synthesis |-> Synthesis(Undefined, Undefined)] :
      k \in {"throws", "notJson"}}
    \cup {[kind |-> "json", synthesis |-> Synthesis(s, i)] :
            s \in {"summary", Undefined}, i \in {"keyInsights", Undefined}}

(***************************************************************************)
(* ResearchState and its mutators (state.ts).                             *)
(***************************************************************************)
NoReport == [defined |-> FALSE]

initializeResearch ==
  [currentPhase |-> "searching", searchResults |-> <<>>, webContents |-> <<>>,
   findings |-> <<>>, researchPlan |-> NoPlan, report |-> NoReport]

updatePhase(st, phase)       == [st EXCEPT !.currentPhase = phase]
addSearchResults(st, res)    == [st EXCEPT !.searchResults = @ \o res]
addWebContents(st, contents) == [st EXCEPT !.webContents = @ \o contents]
\* (a variant of addFindings that also records a page for each finding
\* extracted from one)
addFindingsWithContents(st, fs) ==
  addWebContents([st EXCEPT !.findings = @ \o fs],
                 SelectSeq(fs, LAMBDA f : f.content.kind = "extract"))

\* (a variant of addFindings that assigns the array)
addFindingsReplacing(st, fs) == [st EXCEPT !.findings = fs]

addFindings(st, fs)          == [st EXCEPT !.findings = @ \o fs]
setResearchPlan(st, plan)    == [st EXCEPT !.researchPlan = plan]
setReport(st, rep)           == [st EXCEPT !.report = rep]

(***************************************************************************)
(* The leaf wrappers (tools.ts) and the search client.                    *)
(***************************************************************************)
\* GoogleSearchClient.transformResults with startIndex 1; query is the query
\* the results answer
transformResults(urls, query) ==
  [i \in 1..Len(urls) |->
     [url |-> urls[i], snippet |-> Snippet(urls[i]), position |-> i, query |-> query]]

\* executeGoogleSearch: a query that is not a string fails the parameter
\* schema inside the try; whatever is thrown becomes {success: false}
executeGoogleSearch(query, maxResults, reply) ==
  IF query = NotAString \/ reply.throws
    THEN [status |-> "error", data |-> <<>>]
    ELSE [status |-> "ok", data |-> Slice(transformResults(reply.urls, query), maxResults)]

\* (a variant of SuccessfulResults in which one failed search voids the batch)
AllOrNothingResults(responses) ==
  IF \E i \in 1..Len(responses) : responses[i].status # "ok"
    THEN <<>>
    ELSE Flat([i \in 1..Len(responses) |-> responses[i].data])

\* the filter and flatMap over the search responses
SuccessfulResults(responses) ==
  Flat([i \in 1..Len(responses) |->
          IF responses[i].status = "ok" THEN responses[i].data ELSE <<>>])

\* extractInitialFindings
extractInitialFindings(results) ==
  [i \in 1..Len(results) |->
     [content |-> results[i].snippet, source |-> results[i].url]]

(***************************************************************************)
(* The query list of generateInitialSearchQueries and                     *)
(* generateSpecializedQueries, and the .map over it in the caller:        *)
(* JSON.parse throws on text that is not JSON; a parsed object without    *)
(* "queries" makes queries.map throw; nothing checks the elements.        *)
(***************************************************************************)
QueryListThrows(reply) == reply.kind \in {"throws", "notJson", "noQueries"}

\* the reply is not {queries: [string]}
QueryListMalformed(reply) == reply.kind \in {"notJson", "noQueries", "notStrings"}

\* what is thrown: by the call, by JSON.parse, or by queries.map
QueryListError(reply) ==
  CASE reply.kind = "throws"    -> "callFailed"
    [] reply.kind = "notJson"   -> "notJson"
    [] reply.kind = "noQueries" -> "badShape"

QueryList(reply) ==
  IF reply.kind = "notStrings" THEN [i \in 1..reply.n |-> NotAString]
  ELSE [i \in 1..reply.n |-> i]

(***************************************************************************)
(* The reports.                                                           *)
(***************************************************************************)
Urls(results) == [i \in 1..Len(results) |-> results[i].url]

Contents(fs) == [i \in 1..Len(fs) |-> fs[i].content]

\* Array.prototype.join: the separator stands between two parts, so the text
\* of fewer than two parts holds none
join(parts, separator) ==
  [parts |-> parts, joinedBy |-> IF Len(parts) < 2 THEN "" ELSE separator]

\* the catch branch of performDeepResearch
PartialSources(st) == Urls(st.searchResults)

\* (a variant of PartialReport that takes findingsCount from webContents)
PartialReportCountingContents(st) ==
  [defined |-> TRUE,
   executiveSummary |-> PartialNotice,
   detailedFindings |-> join(Contents(st.findings), "\n\n"),
   sources |-> PartialSources(st),
   metadata |-> [findingsCount |-> Len(st.webContents),
                 sourcesConsulted |-> Len(st.webContents)]]

PartialReport(st) ==
  [defined |-> TRUE,
   executiveSummary |-> PartialNotice,
   detailedFindings |-> join(Contents(st.findings), "\n\n"),
   sources |-> PartialSources(st),
   metadata |-> [findingsCount |-> Len(st.findings),
                 sourcesConsulted |-> Len(st.webContents)]]

\* createFinalReport: mapping over keyInsights or conclusions throws when
\* the parsed object lacks them
createFinalReportThrows(synthesis) ==
  synthesis.keyInsights = Undefined \/ synthesis.conclusions = Undefined

\* (a variant of FinalSources that also lists the sources of the findings)
FinalSourcesWithFindingSources(st) ==
  Dedupe(Urls(st.searchResults) \o [i \in 1..Len(st.findings) |-> st.findings[i].source])

FinalSources(st) == Dedupe(Urls(st.searchResults))

createFinalReport(st, synthesis) ==
  [defined |-> TRUE,
   executiveSummary |-> synthesis.summary,
   detailedFindings |-> [summary |-> synthesis.summary,
                         content |-> synthesis.content,
                         keyInsights |-> synthesis.keyInsights,
                         conclusions |-> synthesis.conclusions,
                         sourceBullets |-> Urls(st.searchResults)],
   sources |-> FinalSources(st),
   metadata |-> [findingsCount |-> Len(st.findings),
                 sourcesConsulted |-> Len(st.webContents)]]

(***************************************************************************)
(* The state of one run of performDeepResearch.                           *)
(***************************************************************************)
VARIABLES
  state,       \* the ResearchState
  pc,          \* the await at which performDeepResearch is suspended
  searches,    \* Phase 1: the queries, their Promise.all of searches, and
               \* (history) the order in which the searches settled
  strat,       \* Phase 3: one executeInvestigationStrategy per strategy
  outcome,     \* "running", "returned" or "raised"
  returned,    \* the report performDeepResearch returned
  started,     \* history: the phases entered, in order
  completed,   \* history: the phases that returned to the orchestrator
  failedPhase, \* history: where the exception came from, or "none"
  error,       \* history: the exception that reached performDeepResearch
  malformed,   \* history: the phases that were handed a reply of the wrong shape
  recorder,    \* the Session Recorder: the persist calls of the run
  probe        \* the call of a function that is checked on its own

\* the run of performDeepResearch
researchVars == <<state, pc, searches, strat, outcome, returned, started, completed,
                  failedPhase, error, malformed>>

vars == <<researchVars, recorder, probe>>

Strategies == 1..MaxStrategies

\* a strategy's locals; the rest is history: whether all of its searches
\* failed, whether all of its fetches failed, how many bodies were judged
\* relevant, the URLs of the bodies judged not relevant, and the step whose
\* failure rejected it
Idle == [pc |-> "idle", queries |-> <<>>, items |-> <<>>, batch |-> <<>>,
         findings |-> <<>>, allSearchesFailed |-> FALSE, allFetchesFailed |-> FALSE,
         relevantCount |-> 0, discarded |-> {}, cause |-> "none"]

Settled == [status |-> "settled"]

\* (a variant of AllSettled that waits for one member only, as Promise.race)
AnySettled(batch) == batch = <<>> \/ \E i \in 1..Len(batch) : batch[i] # Pending

\* await Promise.all(batch) resumes when every member has settled
AllSettled(batch) == \A i \in 1..Len(batch) : batch[i] # Pending

PendingBatch(n) == [i \in 1..n |-> Pending]

\* no state.json has been written
NoFile == [written |-> FALSE]

\* the Session Recorder before the first persist call: served counts the
\* persistResearchState calls whose mkdir has returned, writing holds the
\* snapshots whose writeFile is in flight, file is what state.json holds;
\* failed is history: the persist functions of which a call has failed
Unrecorded == [served |-> 0, writing |-> {}, file |-> NoFile, failed |-> {}]

\* no function is called on its own
NoProbe == [function |-> "none"]

\* performDeepResearch has created the ResearchState
InitResearch ==
  /\ state = initializeResearch
  /\ pc = "start"
  /\ searches = [queries |-> <<>>, responses |-> <<>>, order |-> <<>>]
  /\ strat = [s \in Strategies |-> Idle]
  /\ outcome = "running"
  /\ returned = NoReport
  /\ started = <<>>
  /\ completed = <<>>
  /\ failedPhase = "none"
  /\ error = "none"
  /\ malformed = {}

Init ==
  /\ InitResearch
  /\ recorder = Unrecorded
  /\ probe = NoProbe

(***************************************************************************)
(* performDeepResearch (index.ts).                                        *)
(***************************************************************************)
\* (a variant of PhaseAfter that plans before it searches)
PhaseAfterPlanningFirst(phase) ==
  CASE phase = "start"         -> "planning"
    [] phase = "planning"      -> "initialSearch"
    [] phase = "initialSearch" -> "fanout"
    [] phase = "fanout"        -> "synthesis"

\* (a variant of PhaseAfter that runs the initial search again)
PhaseAfterSearchingAgain(phase) ==
  CASE phase = "start"         -> "initialSearch"
    [] phase = "initialSearch" -> "initialSearch"
    [] phase = "planning"      -> "fanout"
    [] phase = "fanout"        -> "synthesis"

\* the phase the orchestrator calls after a phase has returned
PhaseAfter(phase) ==
  CASE phase = "start"         -> "initialSearch"
    [] phase = "initialSearch" -> "planning"
    [] phase = "planning"      -> "fanout"
    [] phase = "fanout"        -> "synthesis"

\* (a variant of ResearchPhaseOf in which the fan-out executor sets the
\* phase of the initial search)
ResearchPhaseOfCopied(phase) ==
  CASE phase = "initialSearch" -> "searching"
    [] phase = "planning"      -> "planning"
    [] phase = "fanout"        -> "searching"
    [] phase = "synthesis"     -> "synthesizing"

\* the ResearchPhase a phase executor passes to updatePhase
ResearchPhaseOf(phase) ==
  CASE phase = "initialSearch" -> "searching"
    [] phase = "planning"      -> "planning"
    [] phase = "fanout"        -> "investigating"
    [] phase = "synthesis"     -> "synthesizing"

\* the first await of a phase
FirstAwait(phase) ==
  CASE phase = "initialSearch" -> "initialQueries"
    [] phase = "planning"      -> "gaps"
    [] phase = "fanout"        -> "fanout"
    [] phase = "synthesis"     -> "synthesis"

\* executeFanOutInvestigation maps executeInvestigationStrategy over the
\* strategies: each runs to its first await, the query-list call
IssueStrategies(n) ==
  [s \in Strategies |-> IF s <= n THEN [Idle EXCEPT !.pc = "queries"] ELSE Idle]

\* (a variant of TryCovers whose try block ends before the synthesis call)
TryEndsBeforeSynthesis(phase) == phase # "synthesis"

\* the try block encloses the four phase calls and the logging between them
TryCovers(phase) == TRUE

\* an exception reaches performDeepResearch while the state is st
Throw(phase, st) ==
  /\ pc' = "done"
  /\ failedPhase' = phase
  /\ IF TryCovers(phase)
       THEN outcome' = "returned" /\ returned' = PartialReport(st)
       ELSE outcome' = "raised" /\ returned' = NoReport

\* the exception err reaches performDeepResearch: "callFailed" when a leaf
\* call threw, "notJson" when JSON.parse threw, "badShape" when a field the
\* parsed object lacks was used
Raise(phase, st, err) == Throw(phase, st) /\ error' = err

\* the orchestrator calls the next phase, which runs to its first await
Call(phase, st) ==
  /\ pc' = FirstAwait(phase)
  /\ started' = Append(started, phase)
  /\ strat' = IF phase = "fanout"
                THEN IssueStrategies(st.researchPlan.investigationStrategies)
                ELSE strat
  /\ UNCHANGED <<outcome, returned, failedPhase, error>>

StartResearch ==
  /\ pc = "start"
  /\ Call(PhaseAfter("start"), state)
  /\ UNCHANGED <<state, searches, completed, malformed, recorder, probe>>

(***************************************************************************)
(* Phase 1: executeInitialSearch (initialSearch.ts).                      *)
(***************************************************************************)
\* generateInitialSearchQueries returns and the searches are issued
InitialQueries ==
  /\ pc = "initialQueries"
  /\ UNCHANGED <<recorder, probe>>
  /\ \E reply \in QueryListReplies :
       /\ malformed' = IF QueryListMalformed(reply)
                         THEN malformed \cup {"initialSearch"} ELSE malformed
       /\ IF QueryListThrows(reply)
           THEN /\ Raise("initialSearch", state, QueryListError(reply))
                /\ UNCHANGED <<state, searches, strat, started, completed>>
           ELSE /\ searches' = [queries |-> QueryList(reply),
                                responses |-> PendingBatch(reply.n),
                                order |-> <<>>]
                /\ pc' = "initialSearch"
                /\ UNCHANGED <<state, strat, outcome, returned, started, completed,
                               failedPhase, error>>

\* one executeGoogleSearch of the batch settles
InitialSearchSettles(i) ==
  /\ pc = "initialSearch"
  /\ searches.responses[i] = Pending
  /\ \E reply \in InitialGatewayReplies :
       searches' = [searches EXCEPT
                      !.responses[i] =
                         executeGoogleSearch(searches.queries[i], InitialMaxResults, reply),
                      !.order = Append(@, i)]
  /\ UNCHANGED <<state, pc, strat, outcome, returned, started, completed, failedPhase,
                 error, malformed, recorder, probe>>

\* (a variant of AfterInitialSearch that takes the responses in the order in
\* which the searches settled)
AfterInitialSearchInSettleOrder(st, responses) ==
  LET settled          == [k \in 1..Len(searches.order) |-> responses[searches.order[k]]]
      allSearchResults == SuccessfulResults(settled)
      initialFindings  == extractInitialFindings(allSearchResults)
  IN  updatePhase(addFindings(addSearchResults(st, allSearchResults),
                              initialFindings), ResearchPhaseOf("initialSearch"))

\* what executeInitialSearch leaves in the state
AfterInitialSearch(st, responses) ==
  LET allSearchResults == SuccessfulResults(responses)
      initialFindings  == extractInitialFindings(allSearchResults)
  IN  updatePhase(addFindings(addSearchResults(st, allSearchResults),
                              initialFindings), ResearchPhaseOf("initialSearch"))

\* Promise.all resolves; the state is updated; Phase 2 is called
InitialSearchJoin ==
  /\ pc = "initialSearch"
  /\ AllSettled(searches.responses)
  /\ state' = AfterInitialSearch(state, searches.responses)
  /\ completed' = Append(completed, "initialSearch")
  /\ Call(PhaseAfter("initialSearch"), state')
  /\ UNCHANGED <<searches, malformed, recorder, probe>>

(***************************************************************************)
(* Phase 2: executeStrategicPlanning (planning.ts).                       *)
(***************************************************************************)
IdentifyGaps ==
  /\ pc = "gaps"
  /\ \E reply \in GapReplies :
       IF reply = "throws"
         THEN Raise("planning", state, "callFailed") /\ UNCHANGED started
         ELSE pc' = "plan" /\ UNCHANGED <<outcome, returned, failedPhase, error, started>>
  /\ UNCHANGED <<state, searches, strat, completed, malformed, recorder, probe>>

\* JSON.parse(result.text) as ResearchPlan
PlanThrows(reply) == reply.kind \in {"throws", "notJson"}

\* the reply is not a ResearchPlan
PlanMalformed(reply) ==
  \/ reply.kind = "notJson"
  \/ reply.kind = "json" /\ ~(reply.plan.researchQuestions /\ reply.plan.synthesisStrategy)

\* plan.researchQuestions.length and plan.investigationStrategies.length in
\* the orchestrator's log lines
LoggingThrows(plan) == ~plan.researchQuestions

GeneratePlan ==
  /\ pc = "plan"
  /\ \E reply \in PlanReplies :
       /\ malformed' = IF PlanMalformed(reply)
                         THEN malformed \cup {"planning"} ELSE malformed
       /\ IF PlanThrows(reply)
           THEN /\ Raise("planning", state,
                         IF reply.kind = "notJson" THEN "notJson" ELSE "callFailed")
                /\ UNCHANGED <<state, strat, started, completed>>
           ELSE /\ state' = updatePhase(setResearchPlan(state, reply.plan),
                                        ResearchPhaseOf("planning"))
                /\ completed' = Append(completed, "planning")
                /\ IF LoggingThrows(reply.plan)
                     THEN Raise("orchestrator", state', "badShape")
                          /\ UNCHANGED <<strat, started>>
                     ELSE Call(PhaseAfter("planning"), state')
  /\ UNCHANGED <<searches, recorder, probe>>

(***************************************************************************)
(* Phase 3: executeInvestigationStrategy (fanout.ts).                     *)
(***************************************************************************)
\* fetch(url): the request raises, answers with a non-2xx status, or
\* answers with a body
PageBodies(url) ==
  {[len |-> MinContentLength,     trim |-> MinContentLength,     of |-> url],
   [len |-> MinContentLength + 1, trim |-> MinContentLength + 1, of |-> url],
   [len |-> MinContentLength + 1, trim |-> MinContentLength - 1, of |-> url]}

NoBody == [len |-> 0, trim |-> 0, of |-> 0]

FetchReplies(url) ==
  {[raises |-> TRUE, ok |-> FALSE, body |-> NoBody],
   [raises |-> FALSE, ok |-> FALSE, body |-> NoBody]}
    \cup {[raises |-> FALSE, ok |-> TRUE, body |-> b] : b \in PageBodies(url)}

\* executeWebFetch has no try: a raised request rejects the call
executeWebFetchRejects(reply) == reply.raises

\* executeWebFetch when the request does not raise
executeWebFetch(maxLength, reply) ==
  IF ~reply.ok
    THEN [status |-> "error", data |-> NoBody]
    ELSE [status |-> "ok",
          data |-> [reply.body EXCEPT !.len = Min(@, maxLength),
                                      !.trim = Min(@, maxLength)]]

\* max_length of the fan-out fetches
FanOutMaxLength == 10000

\* checkContentRelevance: generateObject throws, or returns the verdict
RelevanceReplies == {"throws", "relevant", "notRelevant"}

\* generateText of the extraction: throws, or returns blank or real text
ExtractionReplies == {"throws", "blank", "text"}

\* (a variant of topResults without the slice)
topResultsUnsliced(responses) == SuccessfulResults(responses)

\* topResults
topResults(responses) == Slice(SuccessfulResults(responses), FetchCeiling)

\* contentsWithUrls: the fetch responses joined by index with topResults and
\* filtered; query is the query whose search returned the URL
contentsWithUrls(top, responses) ==
  SelectSeq([i \in 1..Len(responses) |->
               [content |-> responses[i].data,
                url     |-> top[i].url,
                success |-> responses[i].status = "ok",
                query   |-> top[i].query]],
            LAMBDA item : item.success /\ item.content.len > MinContentLength)

\* the searchQuery checkContentRelevance is given for contents[index]
\* (index counts from 0, as in the source)
searchQueryFor(index, queries, nContents) ==
  queries[((index * Len(queries)) \div nContents) + 1]

\* the relevance calls issued for the contents
relevanceCalls(cwu, queries) ==
  [i \in 1..Len(cwu) |->
     [content |-> cwu[i].content, url |-> cwu[i].url, query |-> cwu[i].query,
      searchQuery |-> searchQueryFor(i - 1, queries, Len(cwu))]]

\* (a variant of relevantItems without the filter on the verdict)
relevantItemsUnfiltered(calls, verdicts) ==
  [i \in 1..Len(calls) |->
     [content  |-> calls[i].content,
      url      |-> calls[i].url,
      relevant |-> verdicts[i].status = "relevant"]]

\* relevantItems
relevantItems(calls, verdicts) ==
  LET tagged == [i \in 1..Len(calls) |->
                   [content  |-> calls[i].content,
                    url      |-> calls[i].url,
                    relevant |-> verdicts[i].status = "relevant"]]
  IN  SelectSeq(tagged, LAMBDA item : item.relevant)

\* validContents of extractInsightsFromContent
validContents(contents) ==
  SelectSeq(contents, LAMBDA content : content.trim >= MinContentLength)

\* the extraction calls: validContents[index] with urls[index]
extractionCalls(relevant) ==
  LET contents == [i \in 1..Len(relevant) |-> relevant[i].content]
      urls     == [i \in 1..Len(relevant) |-> relevant[i].url]
      valid    == validContents(contents)
  IN  [i \in 1..Len(valid) |-> [content |-> valid[i], source |-> urls[i]]]

\* (a variant of extractionRejects for a callback without the try)
extractionRejectsOnThrow(reply) == reply = "throws"

\* the callback of validContents.map catches what generateText throws
extractionRejects(reply) == FALSE

\* what one extraction call resolves to; threw is history: null stands for
\* a throw or for blank text
extractionResult(call, reply) ==
  IF reply = "text"
    THEN [status |-> "finding",
          finding |-> [content |-> Extraction(call.content), source |-> call.source]]
    ELSE [status |-> "null", threw |-> reply = "throws"]

\* results.filter(finding !== null)
extractedFindings(results) ==
  LET kept == SelectSeq(results, LAMBDA r : r.status = "finding")
  IN  [i \in 1..Len(kept) |-> kept[i].finding]

\* strategy s rejects: its pending members stay in flight; if
\* executeFanOutInvestigation still awaits its Promise.all, that rejects and
\* the exception reaches performDeepResearch
Reject(s, member, err) ==
  /\ strat' = [strat EXCEPT ![s] =
                 [Idle EXCEPT !.pc = "rejected",
                              !.cause = strat[s].pc,
                              !.batch = [i \in 1..Len(strat[s].batch) |->
                                           IF i # member /\ strat[s].batch[i] = Pending
                                             THEN Pending ELSE Settled]]]
  /\ IF pc = "fanout"
       THEN Raise("fanout", state, err)
       ELSE UNCHANGED <<pc, outcome, returned, failedPhase, error>>
  /\ UNCHANGED <<state, searches, started, completed>>

Advance(s, next) ==
  /\ strat' = [strat EXCEPT ![s] = next]
  /\ UNCHANGED <<state, pc, searches, outcome, returned, started, completed,
                 failedPhase, error>>

\* generateSpecializedQueries returns and the searches are issued
SpecializedQueries(s) ==
  /\ strat[s].pc = "queries"
  /\ UNCHANGED <<recorder, probe>>
  /\ \E reply \in QueryListReplies :
       /\ malformed' = IF QueryListMalformed(reply)
                         THEN malformed \cup {"fanout"} ELSE malformed
       /\ IF QueryListThrows(reply)
           THEN Reject(s, 0, QueryListError(reply))
           ELSE Advance(s, [strat[s] EXCEPT !.pc = "search",
                                            !.queries = QueryList(reply),
                                            !.batch = PendingBatch(reply.n)])

StrategySearchSettles(s, i) ==
  /\ UNCHANGED <<malformed, recorder, probe>>
  /\ strat[s].pc = "search"
  /\ strat[s].batch[i] = Pending
  /\ \E reply \in FanOutGatewayReplies(s, strat[s].queries[i]) :
       Advance(s, [strat[s] EXCEPT !.batch[i] =
                     executeGoogleSearch(strat[s].queries[i], FanOutMaxResults, reply)])

StrategySearchJoin(s) ==
  /\ UNCHANGED <<malformed, recorder, probe>>
  /\ strat[s].pc = "search"
  /\ AllSettled(strat[s].batch)
  /\ LET top == topResults(strat[s].batch)
     IN  Advance(s, [strat[s] EXCEPT
           !.pc = "fetch",
           !.items = top,
           !.batch = PendingBatch(Len(top)),
           !.allSearchesFailed =
              /\ strat[s].batch # <<>>
              /\ \A i \in 1..Len(strat[s].batch) : strat[s].batch[i].status = "error"])

StrategyFetchSettles(s, i) ==
  /\ UNCHANGED <<malformed, recorder, probe>>
  /\ strat[s].pc = "fetch"
  /\ strat[s].batch[i] = Pending
  /\ \E reply \in FetchReplies(strat[s].items[i].url) :
       IF executeWebFetchRejects(reply)
         THEN Reject(s, i, "callFailed")
         ELSE Advance(s, [strat[s] EXCEPT !.batch[i] =
                            executeWebFetch(FanOutMaxLength, reply)])

StrategyFetchJoin(s) ==
  /\ UNCHANGED <<malformed, recorder, probe>>
  /\ strat[s].pc = "fetch"
  /\ AllSettled(strat[s].batch)
  /\ LET calls == relevanceCalls(contentsWithUrls(strat[s].items, strat[s].batch),
                                 strat[s].queries)
     IN  Advance(s, [strat[s] EXCEPT
           !.pc = "relevance",
           !.items = calls,
           !.batch = PendingBatch(Len(calls)),
           !.allFetchesFailed =
              /\ strat[s].batch # <<>>
              /\ \A i \in 1..Len(strat[s].batch) : strat[s].batch[i].status = "error"])

StrategyRelevanceSettles(s, i) ==
  /\ UNCHANGED <<malformed, recorder, probe>>
  /\ strat[s].pc = "relevance"
  /\ strat[s].batch[i] = Pending
  /\ \E reply \in RelevanceReplies :
       IF reply = "throws"
         THEN Reject(s, i, "callFailed")
         ELSE Advance(s, [strat[s] EXCEPT !.batch[i] = [status |-> reply]])

StrategyRelevanceJoin(s) ==
  /\ UNCHANGED <<malformed, recorder, probe>>
  /\ strat[s].pc = "relevance"
  /\ AllSettled(strat[s].batch)
  /\ LET calls == extractionCalls(relevantItems(strat[s].items, strat[s].batch))
         judged(verdict) == {i \in 1..Len(strat[s].batch) :
                               strat[s].batch[i].status = verdict}
     IN  Advance(s, [strat[s] EXCEPT
           !.pc = "extract",
           !.queries = <<>>,
           !.items = calls,
           !.batch = PendingBatch(Len(calls)),
           !.relevantCount = Cardinality(judged("relevant")),
           !.discarded = {strat[s].items[i].url : i \in judged("notRelevant")}])

\* the extraction call of one content settles; its own catch turns a throw
\* into null
StrategyExtractionSettles(s, i) ==
  /\ UNCHANGED <<malformed, recorder, probe>>
  /\ strat[s].pc = "extract"
  /\ strat[s].batch[i] = Pending
  /\ \E reply \in ExtractionReplies :
       IF extractionRejects(reply)
         THEN Reject(s, i, "callFailed")
         ELSE Advance(s, [strat[s] EXCEPT !.batch[i] =
                            extractionResult(strat[s].items[i], reply)])

StrategyExtractionJoin(s) ==
  /\ UNCHANGED <<malformed, recorder, probe>>
  /\ strat[s].pc = "extract"
  /\ AllSettled(strat[s].batch)
  /\ Advance(s, [strat[s] EXCEPT !.pc = "done",
                                 !.items = <<>>,
                                 !.batch = <<>>,
                                 !.findings = extractedFindings(strat[s].batch)])

\* a call left in flight by a rejected strategy settles; nothing awaits it
AbandonedCallSettles(s, i) ==
  /\ UNCHANGED <<malformed, recorder, probe>>
  /\ strat[s].pc = "rejected"
  /\ strat[s].batch[i] = Pending
  /\ Advance(s, [strat[s] EXCEPT !.batch[i] = Settled])

(***************************************************************************)
(* Phase 3: executeFanOutInvestigation (fanout.ts).                       *)
(***************************************************************************)
\* results.flat()
allFindings(st) == Flat([s \in Strategies |-> st[s].findings])

\* Promise.all of the strategies resolves; the state is updated; Phase 4 is
\* called
FanOutJoin ==
  /\ pc = "fanout"
  /\ \A s \in Strategies : strat[s].pc \in {"done", "idle"}
  /\ state' = updatePhase(addFindings(state, allFindings(strat)),
                          ResearchPhaseOf("fanout"))
  /\ completed' = Append(completed, "fanout")
  /\ pc' = FirstAwait(PhaseAfter("fanout"))
  /\ started' = Append(started, PhaseAfter("fanout"))
  /\ UNCHANGED <<searches, strat, outcome, returned, failedPhase, error, malformed,
                 recorder, probe>>

(***************************************************************************)
(* Phase 4: executeSynthesis (synthesis.ts).                              *)
(***************************************************************************)
\* JSON.parse(result.text) as ResearchSynthesis
SynthesisThrows(reply) == reply.kind \in {"throws", "notJson"}

\* the reply is not a ResearchSynthesis
SynthesisMalformed(reply) ==
  \/ reply.kind = "notJson"
  \/ reply.kind = "json" /\ Undefined \in {reply.synthesis.summary,
                                            reply.synthesis.keyInsights}

Synthesize ==
  /\ pc = "synthesis"
  /\ \E reply \in SynthesisReplies :
       /\ malformed' = IF SynthesisMalformed(reply)
                         THEN malformed \cup {"synthesis"} ELSE malformed
       /\ IF SynthesisThrows(reply) \/ createFinalReportThrows(reply.synthesis)
           THEN /\ Raise("synthesis", state,
                         CASE reply.kind = "throws"  -> "callFailed"
                           [] reply.kind = "notJson" -> "notJson"
                           [] OTHER                  -> "badShape")
                /\ UNCHANGED <<state, completed>>
           ELSE LET report == createFinalReport(state, reply.synthesis)
                IN  /\ state' = updatePhase(setReport(state, report),
                                            ResearchPhaseOf("synthesis"))
                    /\ completed' = Append(completed, "synthesis")
                    /\ pc' = "done"
                    /\ outcome' = "returned"
                    /\ returned' = report
                    /\ UNCHANGED <<failedPhase, error>>
  /\ UNCHANGED <<searches, strat, started, recorder, probe>>

(***************************************************************************)
(* The run.                                                               *)
(***************************************************************************)
Members == 1..(MaxQueries * MaxResults)

Next ==
  \/ StartResearch
  \/ InitialQueries
  \/ \E i \in 1..MaxQueries : i <= Len(searches.responses) /\ InitialSearchSettles(i)
  \/ InitialSearchJoin
  \/ IdentifyGaps
  \/ GeneratePlan
  \/ \E s \in Strategies : SpecializedQueries(s)
  \/ \E s \in Strategies, i \in Members :
       i <= Len(strat[s].batch) /\ StrategySearchSettles(s, i)
  \/ \E s \in Strategies : StrategySearchJoin(s)
  \/ \E s \in Strategies, i \in Members :
       i <= Len(strat[s].batch) /\ StrategyFetchSettles(s, i)
  \/ \E s \in Strategies : StrategyFetchJoin(s)
  \/ \E s \in Strategies, i \in Members :
       i <= Len(strat[s].batch) /\ StrategyRelevanceSettles(s, i)
  \/ \E s \in Strategies : StrategyRelevanceJoin(s)
  \/ \E s \in Strategies, i \in Members :
       i <= Len(strat[s].batch) /\ StrategyExtractionSettles(s, i)
  \/ \E s \in Strategies : StrategyExtractionJoin(s)
  \/ \E s \in Strategies, i \in Members :
       i <= Len(strat[s].batch) /\ AbandonedCallSettles(s, i)
  \/ FanOutJoin
  \/ Synthesize

Spec == Init /\ [][Next]_vars

(***************************************************************************)
(* Runs in which every leaf call in flight settles in the end and a        *)
(* function whose awaited calls have settled resumes.  The list of initial *)
(* queries has at most one query.                                          *)
(***************************************************************************)
FairNext ==
  \/ StartResearch
  \/ InitialQueries /\ Len(searches'.queries) <= 1
  \/ \E i \in 1..MaxQueries : i <= Len(searches.responses) /\ InitialSearchSettles(i)
  \/ InitialSearchJoin
  \/ IdentifyGaps
  \/ GeneratePlan
  \/ \E s \in Strategies : SpecializedQueries(s)
  \/ \E s \in Strategies, i \in Members :
       i <= Len(strat[s].batch) /\ StrategySearchSettles(s, i)
  \/ \E s \in Strategies : StrategySearchJoin(s)
  \/ \E s \in Strategies, i \in Members :
       i <= Len(strat[s].batch) /\ StrategyFetchSettles(s, i)
  \/ \E s \in Strategies : StrategyFetchJoin(s)
  \/ \E s \in Strategies, i \in Members :
       i <= Len(strat[s].batch) /\ StrategyRelevanceSettles(s, i)
  \/ \E s \in Strategies : StrategyRelevanceJoin(s)
  \/ \E s \in Strategies, i \in Members :
       i <= Len(strat[s].batch) /\ StrategyExtractionSettles(s, i)
  \/ \E s \in Strategies : StrategyExtractionJoin(s)
  \/ \E s \in Strategies, i \in Members :
       i <= Len(strat[s].batch) /\ AbandonedCallSettles(s, i)
  \/ FanOutJoin
  \/ Synthesize

FairSpec == Init /\ [][FairNext]_vars /\ WF_vars(FairNext)

(***************************************************************************)
(* Runs in which the searches of a strategy return more results than are  *)
(* fetched.  Phases 1 and 2 have returned: Phase 1 found nothing and the  *)
(* plan has one strategy, whose two searches have settled, each failed or *)
(* with maxResults results.  The members of a batch settle in one step,   *)
(* the first m of them one way and the others the other way.              *)
(***************************************************************************)
\* searchGoogle for query q of strategy s: throws, or returns maxResults
\* results and one more
CeilingGatewayReplies(s, q) ==
  {[throws |-> TRUE, urls |-> <<>>],
   [throws |-> FALSE, urls |-> [r \in 1..(FanOutMaxResults + 1) |-> PageUrl(s, q, r)]]}

InitCeiling ==
  /\ state = updatePhase(setResearchPlan(AfterInitialSearch(initializeResearch, <<>>),
                                         Plan(TRUE, 1, TRUE)),
                       ResearchPhaseOf("planning"))
  /\ pc = "fanout"
  /\ searches = [queries |-> <<>>, responses |-> <<>>, order |-> <<>>]
  /\ \E first \in CeilingGatewayReplies(1, 1), second \in CeilingGatewayReplies(1, 2) :
       strat = [s \in Strategies |->
                  IF s = 1
                    THEN [Idle EXCEPT
                            !.pc = "search",
                            !.queries = <<1, 2>>,
                            !.batch = <<executeGoogleSearch(1, FanOutMaxResults, first),
                                        executeGoogleSearch(2, FanOutMaxResults, second)>>]
                    ELSE Idle]
  /\ outcome = "running"
  /\ returned = NoReport
  /\ started = <<"initialSearch", "planning", "fanout">>
  /\ completed = <<"initialSearch", "planning">>
  /\ failedPhase = "none"
  /\ error = "none"
  /\ malformed = {}
  /\ recorder = Unrecorded
  /\ probe = NoProbe

\* the ways n members settle: the first m with a, the others with b
SettlePatterns(n, a, b) ==
  UNION {{[i \in 1..n |-> IF i <= m THEN a ELSE b],
          [i \in 1..n |-> IF i <= m THEN b ELSE a]} : m \in 0..n}

\* every executeWebFetch of the batch settles: a non-2xx status, or a body
\* longer than the minimum
FetchesSettle(s) ==
  /\ UNCHANGED <<malformed, recorder, probe>>
  /\ strat[s].pc = "fetch"
  /\ strat[s].batch = PendingBatch(Len(strat[s].batch))
  /\ \E pattern \in SettlePatterns(Len(strat[s].batch), "ok", "non2xx") :
       Advance(s, [strat[s] EXCEPT !.batch =
         [i \in 1..Len(strat[s].batch) |->
            executeWebFetch(FanOutMaxLength,
              [raises |-> FALSE,
               ok |-> pattern[i] = "ok",
               body |-> IF pattern[i] = "ok"
                          THEN [len  |-> MinContentLength + 1,
                                trim |-> MinContentLength + 1,
                                of   |-> strat[s].items[i].url]
                          ELSE NoBody])]])

\* every checkContentRelevance of the batch returns its verdict
RelevanceChecksSettle(s) ==
  /\ UNCHANGED <<malformed, recorder, probe>>
  /\ strat[s].pc = "relevance"
  /\ strat[s].batch = PendingBatch(Len(strat[s].batch))
  /\ \E pattern \in SettlePatterns(Len(strat[s].batch), "relevant", "notRelevant") :
       Advance(s, [strat[s] EXCEPT !.batch =
         [i \in 1..Len(strat[s].batch) |-> [status |-> pattern[i]]]])

\* every extraction call of the batch settles: text, or a throw
ExtractionsSettle(s) ==
  /\ UNCHANGED <<malformed, recorder, probe>>
  /\ strat[s].pc = "extract"
  /\ strat[s].batch = PendingBatch(Len(strat[s].batch))
  /\ \E pattern \in SettlePatterns(Len(strat[s].batch), "text", "throws") :
       Advance(s, [strat[s] EXCEPT !.batch =
         [i \in 1..Len(strat[s].batch) |->
            extractionResult(strat[s].items[i], pattern[i])]])

NextCeiling ==
  \/ \E s \in Strategies : StrategySearchJoin(s)
  \/ \E s \in Strategies : FetchesSettle(s)
  \/ \E s \in Strategies : StrategyFetchJoin(s)
  \/ \E s \in Strategies : RelevanceChecksSettle(s)
  \/ \E s \in Strategies : StrategyRelevanceJoin(s)
  \/ \E s \in Strategies : ExtractionsSettle(s)
  \/ \E s \in Strategies : StrategyExtractionJoin(s)
  \/ FanOutJoin
  \/ Synthesize

SpecCeiling == InitCeiling /\ [][NextCeiling]_vars

(***************************************************************************)
(* The Session Recorder (sessionStorage.ts, state.ts).  Every mutator of   *)
(* the ResearchState calls persistResearchState and does not await it; the *)
(* call awaits mkdir, then serializes the state as it is by then, then     *)
(* awaits writeFile on the one file of the session.  persistPrompt and     *)
(* persistResponse are awaited by the functions that call the completion   *)
(* service.                                                                *)
(***************************************************************************)
\* a Date, and the string its toJSON method returns
Date(time) == [type |-> "Date", time |-> time]

toISOString(date) == [type |-> "string", iso |-> date.time]

\* (a variant of toJSON that leaves a Date as it is)
toJSONKeepsDate(value) == value

\* what JSON.stringify writes for a value that is a Date or a string
toJSON(value) == IF value.type = "Date" THEN toISOString(value) ELSE value

\* the Finding objects of the state: id is unique, timestamp is the Date of
\* the phase that made the finding
FindingObjects(findings) ==
  [i \in 1..Len(findings) |->
     [id        |-> i,
      content   |-> findings[i].content,
      source    |-> findings[i].source,
      timestamp |-> Date(IF findings[i].content.kind = "snippet" THEN 1 ELSE 3)]]

\* the ResearchState object in memory
memoryOf(st) == [st EXCEPT !.findings = FindingObjects(st.findings)]

\* JSON.stringify(state, null, 2): the text of the JSON document
stringify(memory) ==
  [text |-> [memory EXCEPT !.findings =
               [i \in 1..Len(memory.findings) |->
                  [memory.findings[i] EXCEPT !.timestamp = toJSON(@)]]]]

\* JSON.parse without a reviver: a string of the document is a string
parse(json) == json.text

\* what writeFile is given for the state st
Snapshot(st) == [written |-> TRUE, json |-> stringify(memoryOf(st))]

\* the mutators a phase calls when its awaits have returned
MutatorCalls(phase) ==
  CASE phase = "initialSearch" -> 3
    [] phase = "planning"      -> 2
    [] phase = "fanout"        -> 2
    [] phase = "synthesis"     -> 2

\* the persistResearchState calls issued so far: one by initializeResearch
\* and one by each mutator call
RECURSIVE PersistCalls(_)
PersistCalls(phases) ==
  IF phases = <<>> THEN 1 ELSE MutatorCalls(Head(phases)) + PersistCalls(Tail(phases))

\* (a variant of persistRejects without the try of persistPrompt and of
\* persistResponse)
persistRejectsUncaught(call) == call \in {"persistPrompt", "persistResponse"}

\* each persist function catches what mkdir, JSON.stringify and writeFile
\* throw, and logs it
persistRejects(call) == FALSE

\* mkdir of a persistResearchState call returns: the state is serialized as
\* it is now and writeFile is called; or mkdir fails
MkdirReturns ==
  /\ recorder.served < PersistCalls(completed)
  /\ \E ok \in BOOLEAN :
       recorder' =
         IF ok THEN [recorder EXCEPT !.served = @ + 1,
                                     !.writing = @ \cup {Snapshot(state)}]
               ELSE [recorder EXCEPT !.served = @ + 1,
                                     !.failed = @ \cup {"persistState"}]
  /\ UNCHANGED <<researchVars, probe>>

\* a writeFile in flight completes, whichever was called first: the file
\* holds its snapshot; or it fails and leaves the file as it is
WriteCompletes ==
  /\ \E snapshot \in recorder.writing, ok \in BOOLEAN :
       recorder' =
         IF ok THEN [recorder EXCEPT !.writing = @ \ {snapshot},
                                     !.file = snapshot]
               ELSE [recorder EXCEPT !.writing = @ \ {snapshot},
                                     !.failed = @ \cup {"persistState"}]
  /\ UNCHANGED <<researchVars, probe>>

\* a persistPrompt or persistResponse call that a phase awaits fails
AwaitedPersistFails ==
  /\ pc \in {"initialQueries", "gaps", "plan", "synthesis"}
  /\ \E call \in {"persistPrompt", "persistResponse"} :
       /\ recorder' = [recorder EXCEPT !.failed = @ \cup {call}]
       /\ IF persistRejects(call)
            THEN /\ Raise(started[Len(started)], state, "recorderFailed")
                 /\ UNCHANGED <<state, searches, strat, started, completed, malformed>>
            ELSE UNCHANGED researchVars
  /\ UNCHANGED probe

\* a persistPrompt or persistResponse call that a strategy awaits fails
StrategyPersistFails(s) ==
  /\ strat[s].pc \in {"queries", "relevance", "extract"}
  /\ strat[s].pc = "queries" \/ \E i \in 1..Len(strat[s].batch) : strat[s].batch[i] = Pending
  /\ \E call \in {"persistPrompt", "persistResponse"} :
       /\ recorder' = [recorder EXCEPT !.failed = @ \cup {call}]
       /\ IF persistRejects(call)
            THEN Reject(s, 0, "recorderFailed") /\ UNCHANGED malformed
            ELSE UNCHANGED researchVars
  /\ UNCHANGED probe

\* a run with its recorder; the query lists have at most one query and the
\* plan at most one strategy, so that no call is abandoned
NextRecorder ==
  \/ StartResearch
  \/ InitialQueries /\ Len(searches'.queries) <= 1
  \/ \E i \in 1..MaxQueries : i <= Len(searches.responses) /\ InitialSearchSettles(i)
  \/ InitialSearchJoin
  \/ IdentifyGaps
  \/ GeneratePlan /\ (state'.researchPlan.defined =>
                        state'.researchPlan.investigationStrategies <= 1)
  \/ \E s \in Strategies : SpecializedQueries(s) /\ Len(strat'[s].queries) <= 1
  \/ \E s \in Strategies, i \in Members :
       i <= Len(strat[s].batch) /\ StrategySearchSettles(s, i)
  \/ \E s \in Strategies : StrategySearchJoin(s)
  \/ \E s \in Strategies, i \in Members :
       i <= Len(strat[s].batch) /\ StrategyFetchSettles(s, i)
  \/ \E s \in Strategies : StrategyFetchJoin(s)
  \/ \E s \in Strategies, i \in Members :
       i <= Len(strat[s].batch) /\ StrategyRelevanceSettles(s, i)
  \/ \E s \in Strategies : StrategyRelevanceJoin(s)
  \/ \E s \in Strategies, i \in Members :
       i <= Len(strat[s].batch) /\ StrategyExtractionSettles(s, i)
  \/ \E s \in Strategies : StrategyExtractionJoin(s)
  \/ FanOutJoin
  \/ Synthesize
  \/ MkdirReturns
  \/ WriteCompletes
  \/ AwaitedPersistFails
  \/ \E s \in Strategies : StrategyPersistFails(s)

SpecRecorder == Init /\ [][NextRecorder]_vars

(***************************************************************************)
(* GoogleSearchClient.search (google-scraper/index.ts), called on its own *)
(* with valid options.  A step is one pass of the while loop: a request   *)
(* for the next page and the reply of the upstream API.                   *)
(***************************************************************************)
\* Math.min(validatedOptions.maxResults, 100)
MaxResultsLimit == 100
\* config.maxResultsPerRequest
MaxResultsPerRequest == 10
\* while (remainingResults > 0 && startIndex <= 91)
LastStartIndex == 91

\* the locals of search when it enters the loop; from, requests and
\* fullPages are history: the startIndex option, the requests made, and
\* whether every reply so far held as many items as were requested
SearchCall(maxResults, startIndex) ==
  [function |-> "search", stage |-> "loop",
   maxResults |-> Min(maxResults, MaxResultsLimit), from |-> startIndex,
   startIndex |-> startIndex, remainingResults |-> Min(maxResults, MaxResultsLimit),
   results |-> <<>>, requests |-> 0, fullPages |-> TRUE]

\* the condition of the while loop
SearchContinues(call) ==
  call.remainingResults > 0 /\ call.startIndex <= LastStartIndex

requestCount(call) == Min(call.remainingResults, MaxResultsPerRequest)

\* makeRequest: throws, or returns no items, a short page or a full page
PageReplies(count) ==
  {[throws |-> TRUE, items |-> 0]}
    \cup {[throws |-> FALSE, items |-> n] : n \in {0, count - 1, count}}

\* the positions transformResults gives the items of a page
pagePositions(items, startIndex) == [index \in 1..items |-> startIndex + index - 1]

InitSearch ==
  /\ InitResearch
  /\ recorder = Unrecorded
  /\ probe \in {SearchCall(maxResults, startIndex) :
                   maxResults \in 1..MaxResultsLimit, startIndex \in 1..MaxStartIndex}

\* one pass of the loop
SearchPage ==
  /\ probe.function = "search"
  /\ probe.stage = "loop"
  /\ SearchContinues(probe)
  /\ \E reply \in PageReplies(requestCount(probe)) :
       probe' =
         IF reply.throws
           THEN [probe EXCEPT !.stage = "threw", !.requests = @ + 1]
         ELSE IF reply.items = 0
           THEN [probe EXCEPT !.stage = "break", !.requests = @ + 1,
                              !.fullPages = FALSE]
         ELSE [probe EXCEPT
                 !.results = @ \o pagePositions(reply.items, probe.startIndex),
                 !.remainingResults = @ - reply.items,
                 !.startIndex = @ + MaxResultsPerRequest,
                 !.requests = @ + 1,
                 !.fullPages = @ /\ reply.items = requestCount(probe),
                 !.stage = IF reply.items < requestCount(probe) THEN "break" ELSE "loop"]
  /\ UNCHANGED <<researchVars, recorder>>

\* the loop has ended: return results.slice(0, maxResults)
SearchReturns ==
  /\ probe.function = "search"
  /\ \/ probe.stage = "break"
     \/ probe.stage = "loop" /\ ~SearchContinues(probe)
  /\ probe' = [probe EXCEPT !.stage = "returned",
                            !.results = Slice(probe.results, probe.maxResults)]
  /\ UNCHANGED <<researchVars, recorder>>

NextSearch == SearchPage \/ SearchReturns

SpecSearch == InitSearch /\ [][NextSearch]_vars

(***************************************************************************)
(* transformMessagesForAnthropic (anthropic/messageTransform.ts), called  *)
(* on its own.  A content block is its type and whether it carries        *)
(* cache_control; a message is the sequence of its content blocks.        *)
(***************************************************************************)
Block(type, cached) == [type |-> type, cache_control |-> cached]

\* the content blocks a request body can hold
Blocks == {Block("text", FALSE), Block("text", TRUE), Block("thinking", FALSE)}

\* the sequences of at most n elements of a set
SeqUpTo(set, n) == UNION {[1..k -> set] : k \in 0..n}

isThinking(block) == block.type \in {"thinking", "redacted_thinking"}

\* the map over a content array that puts cache_control on the last block
\* unless it is a thinking block, and returns every other block as it is
withCacheOnLast(content) ==
  [idx \in 1..Len(content) |->
     IF idx = Len(content) /\ ~isThinking(content[idx])
       THEN [content[idx] EXCEPT !.cache_control = TRUE]
       ELSE content[idx]]

\* system.unshift(...) and systemWithCache
systemWithCache(system) == withCacheOnLast(<<Block("text", FALSE)>> \o system)

\* messagesWithCache (msgIdx counts from 1)
messagesWithCache(messages) ==
  [msgIdx \in 1..Len(messages) |->
     IF msgIdx - 1 >= Len(messages) - 3 /\ Len(messages[msgIdx]) # 0
       THEN withCacheOnLast(messages[msgIdx])
       ELSE messages[msgIdx]]

transformMessagesForAnthropic(messages, system) ==
  [messages |-> messagesWithCache(messages), system |-> systemWithCache(system)]

InitTransform ==
  /\ InitResearch
  /\ recorder = Unrecorded
  /\ probe \in {[function |-> "transform", stage |-> "called",
                  messages |-> messages, system |-> system] :
                   messages \in SeqUpTo(SeqUpTo(Blocks, MaxBlocks), MaxMessages),
                   system \in SeqUpTo(Blocks, MaxBlocks)}

TransformReturns ==
  /\ probe.function = "transform"
  /\ probe.stage = "called"
  /\ probe' = [function |-> "transform", stage |-> "returned",
               messages |-> probe.messages, system |-> probe.system,
               output |-> transformMessagesForAnthropic(probe.messages, probe.system)]
  /\ UNCHANGED <<researchVars, recorder>>

NextTransform == TransformReturns

SpecTransform == InitTransform /\ [][NextTransform]_vars

(***************************************************************************)
(* Properties.                                                            *)
(***************************************************************************)
PhaseOrder == <<"initialSearch", "planning", "fanout", "synthesis">>

Last(seq) == seq[Len(seq)]

\* strategy s awaits a call that has not settled
InFlight(s) ==
  \/ strat[s].pc = "queries"
  \/ \E i \in 1..Len(strat[s].batch) : strat[s].batch[i] = Pending

\* the findings Phase 3 has produced, appended to the state or not
FanOutFindings == UNION {Range(strat[s].findings) : s \in Strategies}

\* C1: performDeepResearch never raises: wherever the exception came from,
\* the call returns the report built from the ResearchState as it stood.
C1_NeverRaises ==
  /\ outcome # "raised"
  /\ failedPhase # "none" =>
       /\ outcome = "returned"
       /\ returned = PartialReport(state)

\* C1 witness: Phase 4 threw after Phase 3 had appended findings, and a
\* report was returned.
C1_Witness ==
  /\ failedPhase = "synthesis"
  /\ outcome = "returned"
  /\ \E f \in Range(state.findings) : f.content.kind = "extract"

\* C2 as claimed: the sources of every returned report, synthesized or
\* degraded, hold no URL twice.
C2_SourcesHoldNoUrlTwice ==
  outcome = "returned" => NoDuplicates(returned.sources)

\* C3 as claimed: a strategy never fails while a member of its batch is
\* pending, and no report is returned while a call of Phase 3 is in flight.
C3_BatchAwaitedToCompletion ==
  /\ \A s \in Strategies : strat[s].pc = "rejected" => ~InFlight(s)
  /\ outcome = "returned" => \A s \in Strategies : ~InFlight(s)

\* C4 as claimed: no strategy, and so neither Phase 3 nor the run, fails
\* because a fetch failed.
C4_FailedFetchIsDropped ==
  \A s \in Strategies : strat[s].cause # "fetch"

\* C5 as claimed: no strategy, and so neither Phase 3 nor the run, fails
\* because a relevance judgment failed.
C5_FailedRelevanceCheckIsDropped ==
  \A s \in Strategies : strat[s].cause # "relevance"

\* C6 as claimed: the source of every Phase 3 finding is the URL the body
\* its content was extracted from was fetched from.
C6_FindingSourceIsBodyUrl ==
  \A f \in FanOutFindings : f.source = f.content.of

\* C7 as claimed: the searchQuery given to the relevance judgment of a body
\* is the query whose search response held the URL of that body.
C7_RelevanceGetsProducingQuery ==
  \A s \in Strategies :
    strat[s].pc = "relevance" =>
      \A i \in 1..Len(strat[s].items) :
        strat[s].items[i].searchQuery = strat[s].items[i].query

\* C8 as claimed: when the run has ended, a phase that was handed a
\* structured reply of the wrong shape is the last phase that was started,
\* the run has failed and the report is the degraded one.
C8_MalformedReplyAbortsRun ==
  pc = "done" =>
    \A phase \in malformed :
      /\ failedPhase # "none"
      /\ Last(started) = phase
      /\ returned = PartialReport(state)

\* C9: the phases start in order, each after the one before it has
\* returned; after a failure no further phase starts.
C9_PhasesInOrder ==
  /\ IsPrefix(started, PhaseOrder)
  /\ IsPrefix(completed, started)
  /\ Len(started) <= Len(completed) + 1
  /\ failedPhase \in Range(PhaseOrder) =>
       /\ Last(started) = failedPhase
       /\ failedPhase \notin Range(completed)
  /\ failedPhase = "orchestrator" => started = completed
  /\ failedPhase # "none" => pc = "done"

\* C9 witness: Phase 3 failed, with a strategy still running, and Phase 4
\* was not started.
C9_Witness ==
  /\ failedPhase = "fanout"
  /\ started = <<"initialSearch", "planning", "fanout">>
  /\ \E s \in Strategies : InFlight(s)

\* what the settled searches contribute when a failed one counts for nothing
Contributed(responses) ==
  Flat([i \in 1..Len(responses) |->
          IF responses[i].status = "error" THEN <<>> ELSE responses[i].data])

\* C10: a failed search counts as zero results and aborts nothing.  Phase 1
\* fails only before it searches; what it appends is what the searches that
\* succeeded returned, one finding per result; when that is nothing, Phase 2
\* is called all the same, with no findings.  A strategy whose searches all
\* failed is not rejected and has no findings, and what Phase 3 appends is
\* the findings of the other strategies.
C10_FailedSearchIsZeroResults ==
  /\ failedPhase = "initialSearch" => searches.responses = <<>>
  /\ "initialSearch" \in Range(completed) =>
       LET contributed == Contributed(searches.responses)
       IN  /\ state.searchResults = contributed
           /\ SubSeq(state.findings, 1, Len(contributed)) =
                [i \in 1..Len(contributed) |->
                   [content |-> contributed[i].snippet, source |-> contributed[i].url]]
           /\ "planning" \in Range(started)
           /\ contributed = <<>> /\ pc \in {"gaps", "plan"} => state.findings = <<>>
  /\ \A s \in Strategies :
       strat[s].allSearchesFailed =>
         /\ strat[s].pc \in {"fetch", "relevance", "extract", "done"}
         /\ strat[s].findings = <<>>
  /\ "fanout" \in Range(completed) =>
       SubSeq(state.findings, Len(state.searchResults) + 1, Len(state.findings)) =
         Flat([s \in Strategies |->
                 IF strat[s].allSearchesFailed THEN <<>> ELSE strat[s].findings])

\* C10 witness: Phase 1 had a failed search and a successful one, and
\* Phase 3 completed with one strategy whose searches all failed and another
\* that produced a finding.
C10_Witness ==
  /\ "fanout" \in Range(completed)
  /\ \E i, j \in 1..Len(searches.responses) :
       /\ searches.responses[i].status = "error"
       /\ searches.responses[j].status = "ok"
       /\ searches.responses[j].data # <<>>
  /\ \E s, t \in Strategies :
       /\ strat[s].allSearchesFailed
       /\ strat[t].findings # <<>>

\* C11: when Phase 4 throws, findingsCount of the returned report is the
\* length of state.findings as it was before the throw, which is every
\* Phase 1 finding (one per search result) and every Phase 3 finding.
C11_FindingsCountAtSynthesisThrow ==
  [][failedPhase = "none" /\ failedPhase' = "synthesis" =>
       /\ returned'.metadata.findingsCount = Len(state.findings)
       /\ Len(state.findings) = Len(state.searchResults) + Len(allFindings(strat))]_vars

\* C11 witness: Phase 4 threw when the state held findings of Phase 1 and
\* of Phase 3, and the report counts them.
C11_Witness ==
  /\ failedPhase = "synthesis"
  /\ \E f, g \in Range(state.findings) :
       f.content.kind = "snippet" /\ g.content.kind = "extract"
  /\ returned.metadata.findingsCount >= 2

\* C12 as claimed: when the synthesis reply is not JSON, the report has the
\* degradation notice as executiveSummary, and its detailedFindings is the
\* content of the findings, in findings order, joined by one newline.
C12_DegradedFindingsNewlineJoined ==
  failedPhase = "synthesis" /\ error = "notJson" =>
    /\ returned.executiveSummary = PartialNotice
    /\ returned.detailedFindings = join(Contents(state.findings), "\n")

\* list holds every value of urls once, in the order of first occurrence
FirstSeenOrder(list, urls) ==
  /\ NoDuplicates(list)
  /\ Range(list) = Range(urls)
  /\ \A i, j \in 1..Len(list) :
       i < j => \E m \in 1..Len(urls) :
                  /\ urls[m] = list[i]
                  /\ \A n \in 1..m : urls[n] # list[j]

\* C13 as claimed: the source bullets of a synthesized report list every
\* distinct source URL once, in first-seen order.
C13_SourceBulletsListEachUrlOnce ==
  "synthesis" \in Range(completed) =>
    FirstSeenOrder(returned.detailedFindings.sourceBullets, Urls(state.searchResults))

\* C14: the sources of a synthesized report are the URLs of
\* state.searchResults with later repetitions removed, in the order of first
\* occurrence; every URL in it is the URL of a recorded search result.
C14_SourcesAreFirstSeenUrls ==
  "synthesis" \in Range(completed) =>
    /\ FirstSeenOrder(returned.sources, Urls(state.searchResults))
    /\ \A u \in Range(returned.sources) :
         \E r \in Range(state.searchResults) : r.url = u

\* C14 witness: a run was synthesized whose search results hold a URL, then
\* another, then the first again.
C14_Witness ==
  /\ "synthesis" \in Range(completed)
  /\ \E i, j, k \in 1..Len(state.searchResults) :
       /\ i < j /\ j < k
       /\ state.searchResults[i].url = state.searchResults[k].url
       /\ state.searchResults[i].url # state.searchResults[j].url
  /\ Len(returned.sources) = 2

\* C15: content judged not relevant is discarded: no extraction call is
\* issued for a body whose verdict was relevant = false, and no finding
\* extracted from such a body is returned by a strategy or appended to
\* state.findings.
C15_NotRelevantContentIsDiscarded ==
  \A s \in Strategies :
    /\ strat[s].pc = "extract" =>
         \A i \in 1..Len(strat[s].items) :
           strat[s].items[i].content.of \notin strat[s].discarded
    /\ \A f \in Range(state.findings) \cup FanOutFindings :
         f.content.kind = "extract" => f.content.of \notin strat[s].discarded

\* C15 witness: Phase 3 appended the finding of a strategy that had judged
\* another of its bodies not relevant.
C15_Witness ==
  /\ "fanout" \in Range(completed)
  /\ \E s \in Strategies :
       /\ strat[s].discarded # {}
       /\ \E f \in Range(strat[s].findings) : f \in Range(state.findings)

\* C16: a strategy contributes at most as many findings as it had bodies
\* judged relevant, which are at most 9, and none when every fetch failed.
C16_FindingsBoundedByRelevantBodies ==
  \A s \in Strategies :
    /\ Len(strat[s].findings) <= strat[s].relevantCount
    /\ strat[s].pc = "extract" => Len(strat[s].items) <= strat[s].relevantCount
    /\ strat[s].relevantCount <= FetchCeiling
    /\ strat[s].pc \in {"fetch", "relevance", "extract"} =>
         Len(strat[s].batch) <= FetchCeiling
    /\ strat[s].allFetchesFailed =>
         /\ strat[s].relevantCount = 0
         /\ strat[s].findings = <<>>

\* C16 witness: both searches of a strategy returned 6 results, the 9 bodies
\* fetched were all judged relevant and each gave a finding; the last is of
\* the third result of the second query.
C16_Witness ==
  \E s \in Strategies :
    /\ strat[s].pc = "done"
    /\ strat[s].relevantCount = FetchCeiling
    /\ Len(strat[s].findings) = FetchCeiling
    /\ Last(strat[s].findings).content.of = PageUrl(s, 2, 3)

\* C17: a failed extraction call drops only its own body.  A strategy that
\* is extracting is not rejected, whatever its extraction calls do, and what
\* it returns is the finding of every call that gave text, in the order of
\* the calls.
C17_FailedExtractionDropsOnlyItsBody ==
  [][\A s \in Strategies :
       strat[s].pc = "extract" =>
         /\ strat'[s].pc \in {"extract", "done"}
         /\ strat'[s].pc = "done" =>
              /\ \A i \in 1..Len(strat[s].batch) :
                   strat[s].batch[i].status = "finding" =>
                     \E k \in 1..Len(strat'[s].findings) :
                       /\ strat'[s].findings[k] = strat[s].batch[i].finding
                       /\ strat'[s].findings[k].content = Extraction(strat[s].items[i].content)
              /\ Len(strat'[s].findings) =
                   Cardinality({i \in 1..Len(strat[s].batch) :
                                  strat[s].batch[i].status = "finding"})]_vars

\* C17 witness: of the two extraction calls of a strategy one threw and the
\* other gave text, whose finding the strategy holds; the strategy and
\* Phase 3 have not failed.
C17_Witness ==
  /\ failedPhase = "none"
  /\ \E s \in Strategies :
       /\ strat[s].pc = "extract"
       /\ \E i, j \in 1..Len(strat[s].batch) :
            /\ strat[s].batch[i].status = "null"
            /\ strat[s].batch[i].threw
            /\ strat[s].batch[j].status = "finding"

\* C18: whatever order the Phase 1 searches settle in, the search results
\* appended are every result of every successful search, ordered by query
\* and then by rank, and the findings appended are one per search result,
\* in that order, with the snippet as content and the URL as source.
C18_InitialResultsInQueryThenRankOrder ==
  "initialSearch" \in Range(completed) =>
    LET results == state.searchResults
        ok      == {q \in 1..Len(searches.responses) :
                      searches.responses[q].status = "ok"}
    IN  /\ \A i, j \in 1..Len(results) :
             i < j => \/ results[i].query < results[j].query
                      \/ /\ results[i].query = results[j].query
                         /\ results[i].position < results[j].position
        /\ \A q \in ok :
             \A r \in 1..Len(searches.responses[q].data) :
               \E i \in 1..Len(results) :
                 /\ results[i] = searches.responses[q].data[r]
                 /\ results[i].query = searches.queries[q]
                 /\ results[i].position = r
        /\ \A i \in 1..Len(results) :
             \E q \in ok : results[i] \in Range(searches.responses[q].data)
        /\ Len(state.findings) >= Len(results)
        /\ \A i \in 1..Len(results) :
             /\ state.findings[i].content = results[i].snippet
             /\ state.findings[i].source = results[i].url

\* C18 witness: the second search settled before the first, the first
\* returned two results and the second one, and Phase 1 has returned.
C18_Witness ==
  /\ "initialSearch" \in Range(completed)
  /\ searches.order = <<2, 1>>
  /\ Len(searches.responses[1].data) = 2
  /\ Len(searches.responses[2].data) = 1
  /\ Len(state.searchResults) = 3

\* C19: the ResearchState is written only by the step in which a phase
\* returns, when no search of Phase 1 and no call of a strategy is in
\* flight; the step in which a phase fails leaves the state as it is, so a
\* phase that fails leaves the state as it was when the phase started.
C19_StateWrittenOnlyBetweenBatches ==
  [][/\ state' # state =>
          /\ \A i \in 1..Len(searches.responses) : searches.responses[i] # Pending
          /\ \A s \in Strategies : ~InFlight(s)
          /\ Len(completed') = Len(completed) + 1
     /\ failedPhase = "none" /\ failedPhase' \in Range(PhaseOrder) =>
          /\ state' = state
          /\ completed' = completed]_vars

\* C19 witness: Phase 3 failed when one of its strategies had returned a
\* finding; the state holds the findings of Phase 1 only and the phase that
\* Phase 2 set.
C19_Witness ==
  /\ failedPhase = "fanout"
  /\ \E s \in Strategies : strat[s].pc = "done" /\ strat[s].findings # <<>>
  /\ state.findings # <<>>
  /\ \A f \in Range(state.findings) : f.content.kind = "snippet"
  /\ state.currentPhase = "planning"
  /\ state.report = NoReport

\* the order of the values of currentPhase
PhaseRank(phase) ==
  CASE phase = "searching"     -> 1
    [] phase = "planning"      -> 2
    [] phase = "investigating" -> 3
    [] phase = "synthesizing"  -> 4

\* C20: in every run, failed or not, currentPhase never moves back in the
\* order searching, planning, investigating, synthesizing; when Phase 1
\* returns it is 'searching', also when nothing was found.
C20_CurrentPhaseNeverRegresses ==
  [][/\ PhaseRank(state'.currentPhase) >= PhaseRank(state.currentPhase)
     /\ completed' = <<"initialSearch">> => state'.currentPhase = "searching"]_vars

\* C20 witness: a run in which Phase 1 found nothing went through the four
\* phases and currentPhase is 'synthesizing'.
C20_Witness ==
  /\ completed = PhaseOrder
  /\ state.searchResults = <<>>
  /\ state.currentPhase = "synthesizing"

\* C21: findings and searchResults only grow at the end: in every step of a
\* run what they held before is a prefix of what they hold after, so no
\* element is removed, replaced or moved.
C21_FindingsAndResultsAppendOnly ==
  [][/\ IsPrefix(state.findings, state'.findings)
     /\ IsPrefix(state.searchResults, state'.searchResults)]_vars

\* C21 witness: Phase 3 has appended its findings after the two findings of
\* Phase 1, which are still the first two.
C21_Witness ==
  /\ "fanout" \in Range(completed)
  /\ Len(state.searchResults) = 2
  /\ Len(state.findings) > 2
  /\ state.findings[1].content.kind = "snippet"
  /\ state.findings[2].content.kind = "snippet"
  /\ state.findings[3].content.kind = "extract"

\* C26 as claimed: a fetched body of at least 100 characters passes the
\* fetch filter and is handed to the relevance judgment, and one of fewer
\* than 100 characters is not; the extraction filter keeps a body under the
\* same condition.
C26_BodyOfHundredCharactersIsKept ==
  [][\A s \in Strategies :
       strat[s].pc = "fetch" /\ strat'[s].pc = "relevance" =>
         \A i \in 1..Len(strat[s].batch) :
           strat[s].batch[i].status = "ok" =>
             LET body == strat[s].batch[i].data
                 kept == \E k \in 1..Len(strat'[s].items) :
                           strat'[s].items[k].content = body
             IN  /\ kept <=> body.len >= MinContentLength
                 /\ kept <=> validContents(<<body>>) = <<body>>]_vars

\* C28: state.webContents is empty in every state of a run, and so
\* sourcesConsulted is 0 in every report, synthesized or degraded, returned
\* or stored in the state.
C28_NoWebContentsRecorded ==
  /\ state.webContents = <<>>
  /\ outcome = "returned" => returned.metadata.sourcesConsulted = 0
  /\ state.report.defined => state.report.metadata.sourcesConsulted = 0

\* C28 witness: a synthesized report was returned for a run in which a
\* strategy of Phase 3 fetched a page and extracted a finding from it.
C28_Witness ==
  /\ completed = PhaseOrder
  /\ outcome = "returned"
  /\ \E s \in Strategies : strat[s].findings # <<>>
  /\ returned.metadata.findingsCount > 0
  /\ returned.metadata.sourcesConsulted = 0

\* the URLs the searches of Phase 1 returned
InitialSearchUrls == {r.url : r \in Range(Contributed(searches.responses))}

\* C29: once Phase 1 has returned, state.searchResults does not change, and
\* the sources of a returned report are URLs that the searches of Phase 1
\* returned.
C29_SearchResultsFixedAfterPhaseOne ==
  /\ [][("initialSearch" \in Range(completed)) =>
          state'.searchResults = state.searchResults]_vars
  /\ [](outcome = "returned" => Range(returned.sources) \subseteq InitialSearchUrls)

\* C29 witness: a synthesized report was returned whose sources hold a URL
\* of Phase 1 and lack the source of a finding of Phase 3.
C29_Witness ==
  /\ completed = PhaseOrder
  /\ returned.sources # <<>>
  /\ \E f \in Range(state.findings) :
       f.content.kind = "extract" /\ f.source \notin Range(returned.sources)

\* the awaits of executeInvestigationStrategy, in the order of the code
StageRank(stage) ==
  CASE stage = "idle"      -> 0
    [] stage = "queries"   -> 1
    [] stage = "search"    -> 2
    [] stage = "fetch"     -> 3
    [] stage = "relevance" -> 4
    [] stage = "extract"   -> 5
    [] stage = "done"      -> 6
    [] stage = "rejected"  -> 7

\* no call is issued a second time: no phase starts twice, a strategy never
\* goes back to an earlier await, and a call that has settled is not pending
\* again while its batch is awaited
NothingReissued ==
  /\ NoDuplicates(started')
  /\ IsPrefix(started, started')
  /\ Len(searches.responses) > 0 =>
       /\ searches'.queries = searches.queries
       /\ \A i \in 1..Len(searches.responses) :
            searches.responses[i] # Pending => searches'.responses[i] = searches.responses[i]
  /\ \A s \in Strategies :
       /\ StageRank(strat'[s].pc) >= StageRank(strat[s].pc)
       /\ strat'[s].pc = strat[s].pc =>
            /\ Len(strat'[s].batch) = Len(strat[s].batch)
            /\ \A i \in 1..Len(strat[s].batch) :
                 strat[s].batch[i] # Pending => strat'[s].batch[i] = strat[s].batch[i]

\* C27: when every call in flight settles in the end, performDeepResearch
\* returns a report in the end, and on the way no phase is run twice and no
\* call is issued again.
C27_RunReturnsWithoutRetry ==
  /\ <>(outcome = "returned")
  /\ [][NothingReissued]_vars

\* C27 witness: a run has returned its synthesized report and nothing is in
\* flight: the four phases were started once each, after a search of
\* Phase 1 and a search and a fetch of Phase 3 had failed.
C27_Witness ==
  /\ outcome = "returned"
  /\ started = PhaseOrder
  /\ completed = PhaseOrder
  /\ \A s \in Strategies : ~InFlight(s)
  /\ \E i \in 1..Len(searches.responses) : searches.responses[i].status = "error"
  /\ \E s \in Strategies : strat[s].allSearchesFailed
  /\ \E s \in Strategies : strat[s].allFetchesFailed

\* C24 as claimed: when search has returned and every request was answered
\* with a full page, it returns maxResults results, has made
\* ceil(maxResults / 10) requests, and the k-th result has position
\* startIndex + k - 1.
C24_SearchReturnsMaxResults ==
  probe.function = "search" /\ probe.stage = "returned" /\ probe.fullPages =>
    /\ Len(probe.results) = probe.maxResults
    /\ probe.requests =
         (probe.maxResults + MaxResultsPerRequest - 1) \div MaxResultsPerRequest
    /\ \A k \in 1..Len(probe.results) : probe.results[k] = probe.from + k - 1

\* the blocks of the output that carry cache_control: <<0, i>> is block i of
\* the system prompt, <<m, i>> block i of message m
CachedBlocks(output) ==
  {<<0, i>> : i \in {i \in 1..Len(output.system) : output.system[i].cache_control}}
    \cup UNION {{<<m, i>> : i \in {i \in 1..Len(output.messages[m]) :
                                        output.messages[m][i].cache_control}} :
                  m \in 1..Len(output.messages)}

\* C25 as claimed: the output carries cache_control on at most 4 blocks:
\* the last system block and the last block of each of the last 3 messages,
\* and no other block.
C25_AtMostFourCachedBlocks ==
  probe.function = "transform" /\ probe.stage = "returned" =>
    LET output == probe.output
    IN  /\ Cardinality(CachedBlocks(output)) <= 4
        /\ \A b \in CachedBlocks(output) :
             \/ b[1] = 0 /\ b[2] = Len(output.system)
             \/ /\ b[1] > Len(output.messages) - 3
                /\ b[2] = Len(output.messages[b[1]])

\* C22: failures of the Session Recorder never affect the run: every step of
\* a run whose persistState, persistPrompt and persistResponse calls fail in
\* any pattern either leaves the run as it is or is a step of the run
\* itself, so the phases take the same steps and return the same report.
C22_RecorderFailuresNeverAffectTheRun ==
  /\ [](error # "recorderFailed")
  /\ [][Next]_researchVars

C22_Witness ==
  /\ recorder.failed = {"persistState", "persistPrompt", "persistResponse"}
  /\ recorder.file = NoFile
  /\ outcome = "returned"
  /\ completed = PhaseOrder
  /\ returned.executiveSummary # PartialNotice

\* the snapshots a step serializes
Serialized == recorder'.writing \ recorder.writing

C30_StoredSnapshotIsFinalState ==
  /\ outcome = "returned"
  /\ recorder.served = PersistCalls(completed)
  /\ recorder.writing = {}
  /\ "persistState" \notin recorder.failed
  => recorder.file = Snapshot(state)

=============================================================================
